---- MODULE Spec2Model ----
(***************************************************************************)
(* Model of the SynthSpider ingestion run (src/populate.py main and the    *)
(* functions of src/SynthSpider.py it drives): sitemap fetch and parse,    *)
(* one fetch_and_save_html coroutine per URL on a single asyncio event     *)
(* loop, the module-level rate window, the backoff retry wrapper around    *)
(* save_to_chromadb and the keyed store.                                   *)
(*                                                                         *)
(* Time is counted in whole seconds and kept as the two differences the   *)
(* code computes: window_age is time.time() - minute_window_start and     *)
(* since_start is the backoff wrapper's now() - start.  Each saturates at *)
(* the largest value the code compares it with, beyond which every test   *)
(* on it has the same result.  A coroutine holds the event loop           *)
(* from the moment it is resumed until its next await; the only await of   *)
(* fetch_and_save_html is the page GET, so everything from the parsed      *)
(* response to the end of save_to_chromadb (including time.sleep) runs     *)
(* while the coroutine holds the loop (variable running).                  *)
(***************************************************************************)
EXTENDS Integers, Sequences, FiniteSets, TLC

\* ---------------------------------------------------------------- bounds
MaxLocs == 2          \* most <loc> entries of a sitemap document

\* ------------------------------------------------------ program constants
tokens_per_minute_limit == 240000
WindowSeconds == 60
ResetWaitSeconds == 100
max_tries == 8
max_time == 300

\* ------------------------------------------------------------ input sets
URLS == {"u1", "u2"}
\* Namespaces of the <loc> elements of a document: the two sitemap
\* namespaces parse_sitemap looks for and a foreign one (image:loc).
Namespaces == {"http", "https", "image"}
Texts == {"", "long", "huge"}
TickSteps == {60}
UpsertSeconds == {0, 100}
\* An optional count: None, or <<k>> for the count k.
None == <<>>
Some(k) == <<k>>

Min(a, b) == IF a <= b THEN a ELSE b
Max(a, b) == IF a >= b THEN a ELSE b

RECURSIVE Pow2(_)
Pow2(k) == IF k <= 0 THEN 1 ELSE 2 * Pow2(k - 1)

\* Sequences over S of length at most k.
SeqsUpTo(S, k) == UNION {[1..m -> S] : m \in 0..k}

LocEntries == [ns : Namespaces, text : URLS]

\* Bodies a sitemap GET can deliver: no usable body, malformed XML, or a
\* well-formed document with its <loc> entries in document order.
SitemapBodies ==
    {[kind |-> "empty", locs |-> <<>>], [kind |-> "malformed", locs |-> <<>>]}
    \cup {[kind |-> "xml", locs |-> l] : l \in SeqsUpTo(LocEntries, MaxLocs)}

\* Values of the --n argument
MaxUrlsArgs == {None} \cup {Some(k) : k \in 0..MaxLocs}

\* tiktoken's count for each page text of the model.
count_tokens(text) ==
    CASE text = "" -> 0
      [] text = "long" -> 200000
      [] text = "huge" -> 300000

VARIABLES
    window_age,               \* time.time() - minute_window_start
    tokens_used_this_minute,  \* module global
    store,                    \* the collection: sequence of entries
    mainPc,                   \* position of main()
    sitemap,                  \* what the sitemap GET and parse came to
    error,                    \* exception that left main(), or "none"
    urls,                     \* result of parse_sitemap
    pc,                       \* position of each fetch_and_save_html task
    running,                  \* task holding the event loop, 0 if none
    text_content,             \* running task: the extracted page text
    tries,                    \* running task, backoff wrapper: attempts
    since_start,              \* running task, backoff wrapper: now() - start
    elapsed,                  \* running task, backoff wrapper: elapsed
    admitted,                 \* running task: within_rate_limit said yes
    completed,                \* progress bar count
    arg_content,              \* parse_sitemap called alone: sitemap_content
    arg_max_urls,             \* parse_sitemap called alone: max_urls
    parse_done,               \* parse_sitemap called alone: it has returned
    returned_urls             \* parse_sitemap called alone: its result

vars == <<window_age, tokens_used_this_minute, store, mainPc, sitemap, error,
          urls, pc, running, text_content, tries, since_start, elapsed,
          admitted, completed, arg_content, arg_max_urls, parse_done, returned_urls>>

rateVars == <<window_age, tokens_used_this_minute>>
mainVars == <<mainPc, sitemap, error, urls>>
callVars == <<running, text_content, tries, since_start, elapsed, admitted>>
parseVars == <<arg_content, arg_max_urls, parse_done, returned_urls>>
runVars == <<window_age, tokens_used_this_minute, store, mainPc, sitemap,
             error, urls, pc, running, text_content, tries, since_start,
             elapsed, admitted, completed>>

Tasks == 1..Len(urls)

\* ------------------------------------------------------------- sitemap
NsLocs(locs, ns) ==
    LET hit == SelectSeq(locs, LAMBDA e : e.ns = ns)
    IN  [i \in 1..Len(hit) |-> hit[i].text]

\* Variant: the cap keeps the last max_urls entries.
TruncateTail(us, max_urls) ==
    IF max_urls = None THEN us
    ELSE SubSeq(us, Len(us) - Min(max_urls[1], Len(us)) + 1, Len(us))

Truncate(us, max_urls) ==
    IF max_urls = None THEN us ELSE SubSeq(us, 1, Min(max_urls[1], Len(us)))

\* Variant: the https namespace is tried first.
parse_sitemap_https_first(body, max_urls) ==
    LET https == NsLocs(body.locs, "https")
        found == IF https = <<>> THEN NsLocs(body.locs, "http") ELSE https
    IN  Truncate(found, max_urls)

parse_sitemap(body, max_urls) ==
    LET http == NsLocs(body.locs, "http")
        found == IF http = <<>> THEN NsLocs(body.locs, "https") ELSE http
    IN  Truncate(found, max_urls)

\* ---------------------------------------------------------- rate window
\* Differences of clock readings, d seconds later.
AgeAfter(age, d) == Min(ResetWaitSeconds, age + d)
SinceAfter(since, d) == Min(max_time, since + d)

\* Variant: the window rolls over only after more than 60 seconds.
ExpiredStrict(age) == age > WindowSeconds

\* `current_time - minute_window_start >= 60`
Expired(age) == age >= WindowSeconds

\* tokens_used_this_minute and the window's age after the rollover test
\* Variant: an expired window keeps its count.
RolledUsedKeep(age, used) == used

RolledUsed(age, used) == IF Expired(age) THEN 0 ELSE used
RolledAge(age) == IF Expired(age) THEN 0 ELSE age

within_rate_limit(age, used, num_tokens) ==
    RolledUsed(age, used) + num_tokens <= tokens_per_minute_limit

\* time_to_wait of wait_for_rate_limit_reset; no sleep unless it is > 0
\* Variant: the wait runs to the end of the 60-second window.
TimeToWaitWindow(age) == Max(0, WindowSeconds - age)

TimeToWait(age) == Max(0, ResetWaitSeconds - age)

\* Variant: the wait's assignment reaches the global count.
WaitResetUsedGlobal(used) == 0

\* tokens_used_this_minute after wait_for_rate_limit_reset: the function
\* declares only minute_window_start global, so its assignment of 0 binds
\* a local name and the module global keeps its value.
WaitResetUsed(used) == used

\* ------------------------------------------------------------- store
HasId(s, id) == \E i \in 1..Len(s) : s[i].id = id

Entry(url, doc) == [id |-> url, document |-> doc, metadata |-> [url |-> url]]

\* Variant: an insert that never replaces.
UpsertAppend(s, url, doc) == Append(s, Entry(url, doc))

\* Variant: a page without text is not written.
UpsertSkipEmpty(s, url, doc) ==
    IF doc = "" THEN s
    ELSE IF HasId(s, url)
    THEN [i \in 1..Len(s) |-> IF s[i].id = url THEN Entry(url, doc) ELSE s[i]]
    ELSE Append(s, Entry(url, doc))

\* collection.upsert: replace the entry of that id, or add one.
Upsert(s, url, doc) ==
    IF HasId(s, url)
    THEN [i \in 1..Len(s) |-> IF s[i].id = url THEN Entry(url, doc) ELSE s[i]]
    ELSE Append(s, Entry(url, doc))

Ids(s) == {s[i].id : i \in 1..Len(s)}

\* ------------------------------------------------------------ backoff
\* Variant: the wrapper without max_time.
GiveUpTriesOnly(t, e) == t = max_tries

\* backoff.on_exception(expo, RateLimitError, max_tries=8, max_time=300):
\* on a RateLimitError the wrapper gives up when this was try max_tries or
\* when the elapsed time measured at the start of the try reached max_time.
GiveUpNow(t, e) == t = max_tries \/ e >= max_time


\* expo's value for the t-th failure, before jitter
ExpoValue(t) == Pow2(t - 1)

\* full jitter draws from [0, value]; the sleep is capped by the time left
SleepChoices(t, e) == {0, Min(ExpoValue(t), max_time - e)}

\* The run before main starts
RunInit ==
    /\ window_age = 0
    /\ tokens_used_this_minute = 0
    /\ store = <<>>
    /\ mainPc = "fetch_sitemap"
    /\ sitemap = "pending"
    /\ error = "none"
    /\ urls = <<>>
    /\ pc = <<>>
    /\ running = 0
    /\ text_content = ""
    /\ tries = 0
    /\ since_start = 0
    /\ elapsed = 0
    /\ admitted = FALSE
    /\ completed = 0

\* The well-formed documents
XmlBodies == {b \in SitemapBodies : b.kind = "xml"}

\* The run: parse_sitemap is called inside main only
Init ==
    /\ RunInit
    /\ arg_content = [kind |-> "xml", locs |-> <<>>]
    /\ arg_max_urls = None
    /\ parse_done = FALSE
    /\ returned_urls = <<>>

\* d seconds pass: every clock difference grows by d
Pass(d) ==
    /\ window_age' = AgeAfter(window_age, d)
    /\ since_start' = IF running = 0 THEN 0 ELSE SinceAfter(since_start, d)

\* Time passes while the loop is idle (main or the tasks await a GET).
Tick(d) ==
    /\ running = 0
    /\ mainPc \in {"fetch_sitemap", "gather"}
    /\ Pass(d)
    /\ UNCHANGED <<parseVars, tokens_used_this_minute, store, mainVars, pc, running,
                   text_content, tries, elapsed, admitted, completed>>

\* fetch_sitemap caught a RequestException and returned None;
\* main: `if not sitemap_xml: return`
FetchSitemapFail ==
    /\ mainPc = "fetch_sitemap"
    /\ sitemap' = "fetch_failed"
    /\ mainPc' = "returned"
    /\ UNCHANGED <<parseVars, rateVars, store, error, urls, pc, callVars, completed>>

\* Variant: main goes on to gather without `if not urls: return`.
SitemapFetchedNoUrlsTest(body, max_urls) ==
    /\ mainPc = "fetch_sitemap"
    /\ LET us == IF body.kind = "xml" THEN parse_sitemap(body, max_urls)
                 ELSE <<>>
       IN  /\ urls' = us
           /\ pc' = [p \in 1..Len(us) |-> "fetch"]
           /\ sitemap' = CASE body.kind = "empty" -> "empty"
                           [] body.kind = "malformed" -> "malformed"
                           [] us = <<>> -> "no_urls"
                           [] OTHER -> "parsed"
           /\ mainPc' = CASE body.kind = "malformed" -> "raised"
                          [] body.kind = "empty" -> "returned"
                          [] OTHER -> "gather"
           /\ error' = IF body.kind = "malformed" THEN "ParseError" ELSE "none"
    /\ UNCHANGED <<parseVars, rateVars, store, callVars, completed>>

\* main resumes with the body of the sitemap response and runs on to its
\* next await or its end: `if not sitemap_xml: return` (an empty body),
\* parse_sitemap (ET.fromstring raises ParseError on malformed XML),
\* `if not urls: return`, then one task per URL and gather.
SitemapFetched(body, max_urls) ==
    /\ mainPc = "fetch_sitemap"
    /\ LET us == IF body.kind = "xml" THEN parse_sitemap(body, max_urls)
                 ELSE <<>>
       IN  /\ urls' = us
           /\ pc' = [p \in 1..Len(us) |-> "fetch"]
           /\ sitemap' = CASE body.kind = "empty" -> "empty"
                           [] body.kind = "malformed" -> "malformed"
                           [] us = <<>> -> "no_urls"
                           [] OTHER -> "parsed"
           /\ mainPc' = CASE body.kind = "malformed" -> "raised"
                          [] us = <<>> -> "returned"
                          [] OTHER -> "gather"
           /\ error' = IF body.kind = "malformed" THEN "ParseError" ELSE "none"
    /\ UNCHANGED <<parseVars, rateVars, store, callVars, completed>>

\* Variant: update_progress() runs for a failed GET too.
FetchFailCounted(p) ==
    /\ mainPc = "gather"
    /\ running = 0
    /\ pc[p] = "fetch"
    /\ pc' = [pc EXCEPT ![p] = "skipped"]
    /\ completed' = completed + 1
    /\ UNCHANGED <<parseVars, rateVars, store, mainVars, callVars>>

\* fetch_and_save_html: the GET failed or raise_for_status raised; the
\* RequestException is caught and logged, the coroutine ends.
FetchFail(p) ==
    /\ mainPc = "gather"
    /\ running = 0
    /\ pc[p] = "fetch"
    /\ pc' = [pc EXCEPT ![p] = "skipped"]
    /\ UNCHANGED <<parseVars, rateVars, store, mainVars, callVars, completed>>

\* Variant: a coroutine resumes while another one is inside
\* save_to_chromadb.
FetchOkInterleaved(p, t) ==
    /\ mainPc = "gather"
    /\ pc[p] = "fetch"
    /\ running' = p
    /\ text_content' = t
    /\ pc' = [pc EXCEPT ![p] = "retry"]
    /\ tries' = 0
    /\ since_start' = 0
    /\ elapsed' = 0
    /\ admitted' = FALSE
    /\ UNCHANGED <<parseVars, rateVars, store, mainVars, completed>>

\* fetch_and_save_html: the GET succeeded, text_content is extracted and
\* save_to_chromadb is called: the backoff wrapper starts (tries = 0).
FetchOk(p, t) ==
    /\ mainPc = "gather"
    /\ running = 0
    /\ pc[p] = "fetch"
    /\ running' = p
    /\ text_content' = t
    /\ pc' = [pc EXCEPT ![p] = "retry"]
    /\ tries' = 0
    /\ since_start' = 0
    /\ elapsed' = 0
    /\ admitted' = FALSE
    /\ UNCHANGED <<parseVars, rateVars, store, mainVars, completed>>

\* Backoff loop head and the admission test of save_to_chromadb:
\* tries += 1; elapsed = now() - start; `if not within_rate_limit(num_tokens)`
Attempt(p) ==
    /\ running = p
    /\ pc[p] = "retry"
    /\ tries' = tries + 1
    /\ elapsed' = since_start
    /\ tokens_used_this_minute' = RolledUsed(window_age, tokens_used_this_minute)
    /\ window_age' = RolledAge(window_age)
    /\ admitted' = within_rate_limit(window_age, tokens_used_this_minute,
                                     count_tokens(text_content))
    /\ pc' = [pc EXCEPT ![p] = IF admitted' THEN "upsert" ELSE "refused"]
    /\ UNCHANGED <<parseVars, store, mainVars, running, text_content, since_start,
                   completed>>

\* wait_for_rate_limit_reset(): sleep time_to_wait, then
\* minute_window_start = time.time()
WaitForReset ==
    /\ since_start' = SinceAfter(since_start, TimeToWait(window_age))
    /\ window_age' = 0
    /\ tokens_used_this_minute' = WaitResetUsed(tokens_used_this_minute)

\* Variant: after the wait the admission test is made again.
WaitRefusedRecheck(p) ==
    /\ running = p
    /\ pc[p] = "refused"
    /\ WaitForReset
    /\ admitted' = within_rate_limit(0, tokens_used_this_minute,
                                     count_tokens(text_content))
    /\ pc' = [pc EXCEPT ![p] = IF admitted' THEN "upsert" ELSE "refused"]
    /\ UNCHANGED <<parseVars, store, mainVars, running, text_content, tries,
                   elapsed, completed>>

\* save_to_chromadb: admission was refused, wait once and go on to upsert
WaitRefused(p) ==
    /\ running = p
    /\ pc[p] = "refused"
    /\ WaitForReset
    /\ pc' = [pc EXCEPT ![p] = "upsert"]
    /\ UNCHANGED <<parseVars, store, mainVars, running, text_content, tries, elapsed, admitted,
                   completed>>

\* The call of save_to_chromadb is over: its frame and the wrapper's go
EndCall ==
    /\ running' = 0
    /\ text_content' = ""
    /\ tries' = 0
    /\ since_start' = 0
    /\ elapsed' = 0
    /\ admitted' = FALSE

\* collection.upsert succeeded after d seconds; the tokens are charged,
\* save_to_chromadb returns and update_progress() runs
UpsertOk(p, d) ==
    /\ running = p
    /\ pc[p] = "upsert"
    /\ window_age' = AgeAfter(window_age, d)
    /\ store' = Upsert(store, urls[p], text_content)
    /\ tokens_used_this_minute' =
           tokens_used_this_minute + count_tokens(text_content)
    /\ pc' = [pc EXCEPT ![p] = "saved"]
    /\ completed' = completed + 1
    /\ EndCall
    /\ UNCHANGED <<mainVars, parseVars>>

\* Variant: an upsert error of any kind is tried again.
UpsertErrorRetried(p, kind, d) ==
    /\ running = p
    /\ pc[p] = "upsert"
    /\ kind = "duplicate" => HasId(store, urls[p])
    /\ Pass(d)
    /\ pc' = [pc EXCEPT ![p] = "retry"]
    /\ UNCHANGED <<parseVars, tokens_used_this_minute, store, mainVars, running,
                   text_content, tries, elapsed, admitted, completed>>

\* collection.upsert raised UniqueConstraintError ("duplicate") or another
\* exception that is not a RateLimitError ("other"): it is logged,
\* save_to_chromadb returns normally and update_progress() runs.  The
\* store reports a duplicate only for an id it holds.
UpsertError(p, kind, d) ==
    /\ running = p
    /\ pc[p] = "upsert"
    /\ kind = "duplicate" => HasId(store, urls[p])
    /\ window_age' = AgeAfter(window_age, d)
    /\ pc' = [pc EXCEPT ![p] = kind]
    /\ completed' = completed + 1
    /\ EndCall
    /\ UNCHANGED <<parseVars, tokens_used_this_minute, store, mainVars>>

\* collection.upsert raised RateLimitError after d seconds
UpsertThrottled(p, d) ==
    /\ running = p
    /\ pc[p] = "upsert"
    /\ Pass(d)
    /\ pc' = [pc EXCEPT ![p] = "throttled"]
    /\ UNCHANGED <<parseVars, tokens_used_this_minute, store, mainVars, running,
                   text_content, tries, elapsed, admitted, completed>>

\* Variant: the except clause re-raises without waiting.
RaiseThrottled(p) ==
    /\ running = p
    /\ pc[p] = "throttled"
    /\ pc' = [pc EXCEPT ![p] = "backoff"]
    /\ UNCHANGED <<parseVars, rateVars, store, mainVars, callVars, completed>>

\* except RateLimitError: wait_for_rate_limit_reset(); raise
WaitThrottled(p) ==
    /\ running = p
    /\ pc[p] = "throttled"
    /\ WaitForReset
    /\ pc' = [pc EXCEPT ![p] = "backoff"]
    /\ UNCHANGED <<parseVars, store, mainVars, running, text_content, tries, elapsed, admitted,
                   completed>>

\* backoff wrapper: retries are left, sleep the jittered delay and try again
BackoffSleep(p) ==
    /\ running = p
    /\ pc[p] = "backoff"
    /\ ~GiveUpNow(tries, elapsed)
    /\ \E s \in SleepChoices(tries, elapsed) : Pass(s)
    /\ pc' = [pc EXCEPT ![p] = "retry"]
    /\ UNCHANGED <<parseVars, tokens_used_this_minute, store, mainVars, running,
                   text_content, tries, elapsed, admitted, completed>>

\* backoff wrapper gives up: the RateLimitError leaves save_to_chromadb and,
\* not being a RequestException, leaves fetch_and_save_html too
BackoffGiveUp(p) ==
    /\ running = p
    /\ pc[p] = "backoff"
    /\ GiveUpNow(tries, elapsed)
    /\ pc' = [pc EXCEPT ![p] = "failed"]
    /\ EndCall
    /\ UNCHANGED <<parseVars, rateVars, store, mainVars, completed>>

\* The coroutine of task p has ended (normally or by an exception)
Finished(p) == pc[p] \in {"saved", "duplicate", "other", "skipped", "failed"}

\* await asyncio.gather(*tasks) with every task ended normally; pbar.close()
GatherReturns ==
    /\ mainPc = "gather"
    /\ running = 0
    /\ \A p \in Tasks : pc[p] \in {"saved", "duplicate", "other", "skipped"}
    /\ mainPc' = "returned"
    /\ UNCHANGED <<parseVars, rateVars, store, sitemap, error, urls, pc, callVars,
                   completed>>

\* gather hands the first task exception to main, which does not catch it;
\* asyncio.run then cancels the tasks still pending.
GatherRaises ==
    /\ mainPc = "gather"
    /\ running = 0
    /\ \E p \in Tasks : pc[p] = "failed"
    /\ mainPc' = "raised"
    /\ error' = "RateLimitError"
    /\ pc' = [p \in Tasks |-> IF Finished(p) THEN pc[p] ELSE "cancelled"]
    /\ UNCHANGED <<parseVars, rateVars, store, sitemap, urls, callVars, completed>>

Next ==
    \/ \E d \in TickSteps : Tick(d)
    \/ FetchSitemapFail
    \/ /\ mainPc = "fetch_sitemap"
       /\ \E body \in SitemapBodies, max_urls \in MaxUrlsArgs :
              SitemapFetched(body, max_urls)
    \/ \E p \in Tasks : FetchFail(p)
    \/ \E p \in Tasks, t \in Texts : FetchOk(p, t)
    \/ \E p \in Tasks : Attempt(p)
    \/ \E p \in Tasks : WaitRefused(p)
    \/ \E p \in Tasks, d \in UpsertSeconds : UpsertOk(p, d)
    \/ \E p \in Tasks, k \in {"duplicate", "other"}, d \in UpsertSeconds :
           UpsertError(p, k, d)
    \/ \E p \in Tasks, d \in UpsertSeconds : UpsertThrottled(p, d)
    \/ \E p \in Tasks : WaitThrottled(p)
    \/ \E p \in Tasks : BackoffSleep(p)
    \/ \E p \in Tasks : BackoffGiveUp(p)
    \/ GatherReturns
    \/ GatherRaises

Spec == Init /\ [][Next]_vars

\* ------------------------------------------- parse_sitemap called alone
\* Any well-formed document and any max_urls
InitParse ==
    /\ RunInit
    /\ arg_content \in XmlBodies
    /\ arg_max_urls \in MaxUrlsArgs
    /\ parse_done = FALSE
    /\ returned_urls = <<>>

\* urls = parse_sitemap(sitemap_content, max_urls)
ParseCall ==
    /\ ~parse_done
    /\ returned_urls' = parse_sitemap(arg_content, arg_max_urls)
    /\ parse_done' = TRUE
    /\ UNCHANGED <<runVars, arg_content, arg_max_urls>>

NextParse == ParseCall

SpecParse == InitParse /\ [][NextParse]_vars

\* ============================================================ properties
MainOver == mainPc \in {"returned", "raised"}

\* Task p has just been through wait_for_rate_limit_reset in this step
Waited(p) ==
    \/ pc[p] = "refused" /\ pc'[p] = "upsert"
    \/ pc[p] = "throttled" /\ pc'[p] = "backoff"

\* Task p has just been through within_rate_limit in this step
Checked(p) == pc[p] = "retry" /\ pc'[p] \in {"upsert", "refused"}

\* C1: while the rate window has not expired, tokens_used_this_minute
\* never exceeds tokens_per_minute_limit.
C1_BudgetInvariant ==
    window_age < WindowSeconds =>
        tokens_used_this_minute <= tokens_per_minute_limit

\* C2: right after wait_for_rate_limit_reset returns, the window is reset:
\* no tokens used and the window starts at the current time.
C2_WaitResetsWindow ==
    [][\A p \in Tasks :
          Waited(p) => tokens_used_this_minute' = 0 /\ window_age' = 0]_vars

\* C3: within_rate_limit called on a window at least 60 s old empties the
\* budget and restarts the window before deciding, so it admits exactly
\* the requests of at most the limit; on a younger window it changes
\* neither the budget nor the window start.
C3_WindowRollover ==
    [][\A p \in Tasks :
          Checked(p) =>
              IF window_age >= WindowSeconds
              THEN /\ tokens_used_this_minute' = 0
                   /\ window_age' = 0
                   /\ pc'[p] = "upsert" <=>
                          count_tokens(text_content) <= tokens_per_minute_limit
              ELSE /\ tokens_used_this_minute' = tokens_used_this_minute
                   /\ window_age' = window_age]_vars

\* A rollover has happened: a page was charged and stored earlier, and the
\* admission test of a later write has emptied the budget.
C3_Witness ==
    \E p \in Tasks :
        /\ pc[p] = "upsert"
        /\ tries = 1
        /\ window_age = 0
        /\ tokens_used_this_minute = 0
        /\ \E i \in 1..Len(store) : store[i].document = "long"

C5_FailureIsolation ==
    /\ mainPc = "raised" => error = "ParseError"
    /\ \A p \in Tasks : pc[p] # "cancelled"

\* C6: whenever main is over, every task it launched has run to its end.
C6_OrchestratorCompletion ==
    MainOver => \A p \in Tasks : Finished(p)

\* C7: no two entries of the store share an id, and a write whose url is
\* already stored with the same text leaves the store exactly as it was.
C7_WriteIdempotence ==
    /\ [](\A i, j \in 1..Len(store) : store[i].id = store[j].id => i = j)
    /\ [][\A p \in Tasks :
            (running = p /\ \E i \in 1..Len(store) :
                               store[i] = Entry(urls[p], text_content))
                => store' = store]_vars

\* Two tasks of the same URL both wrote the text "long" (each charged its
\* 200000 tokens) and the store holds one entry.
C7_Witness ==
    \E p, q \in Tasks :
        /\ p # q
        /\ urls[p] = urls[q]
        /\ pc[p] = "saved" /\ pc[q] = "saved"
        /\ tokens_used_this_minute = 2 * count_tokens("long")
        /\ store = <<Entry(urls[p], "long")>>

\* C8: the run ends abnormally exactly when the sitemap could not be
\* fetched or could not be parsed.
C8_RunOutcome ==
    MainOver =>
        (mainPc = "raised" <=> sitemap \in {"fetch_failed", "empty", "malformed"})

\* C9: a write of more tokens than the limit never comes to the upsert and
\* never gets into the store.
C9_OverLimitNeverWritten ==
    /\ \A p \in Tasks :
           (running = p /\ count_tokens(text_content) > tokens_per_minute_limit)
               => pc[p] \notin {"upsert", "throttled", "backoff"}
    /\ \A i \in 1..Len(store) :
           count_tokens(store[i].document) <= tokens_per_minute_limit

\* C10: a failed page GET never makes main raise, and the ids in the store
\* are exactly the URLs of the tasks whose upsert succeeded; so when the
\* run ends with every page either skipped or saved, the store holds
\* exactly the URLs whose page was fetched.
C10_FetchFailuresAreSkips ==
    /\ (mainPc = "raised" /\ sitemap = "parsed") =>
           \E p \in Tasks : pc[p] = "failed"
    /\ Ids(store) = {urls[p] : p \in {q \in Tasks : pc[q] = "saved"}}
    /\ (mainPc = "returned" /\ \A p \in Tasks : pc[p] \in {"saved", "skipped"})
           => Ids(store) = {urls[p] : p \in {q \in Tasks : pc[q] # "skipped"}}

\* The run ended normally with one page skipped and one page of empty text
\* saved.
C10_Witness ==
    /\ mainPc = "returned"
    /\ \E p, q \in Tasks :
           /\ pc[p] = "skipped"
           /\ pc[q] = "saved"
           /\ store = <<Entry(urls[q], "")>>

\* ---- parse_sitemap called alone (SpecParse)
\* Positions of the entries of namespace ns in the document
Positions(ns) == {j \in 1..Len(arg_content.locs) : arg_content.locs[j].ns = ns}

\* Position of the i-th entry of namespace ns in document order
NthPosition(ns, i) ==
    CHOOSE j \in Positions(ns) :
        Cardinality({m \in Positions(ns) : m <= j}) = i

\* The namespace whose entries the document is read by
MatchedNs == IF Positions("http") # {} THEN "http" ELSE "https"

\* C11: for a well-formed sitemap with N loc entries in the matched
\* namespace, parse_sitemap with a cap k, 0 <= k <= N, returns exactly the
\* first k of those entries' URLs in document order, and with no cap
\* (None) all N of them.
C11_SitemapTruncation ==
    parse_done =>
        LET N == Cardinality(Positions(MatchedNs))
            k == IF arg_max_urls = None THEN N ELSE arg_max_urls[1]
        IN  k <= N =>
                /\ Len(returned_urls) = k
                /\ \A i \in 1..k :
                       returned_urls[i] =
                           arg_content.locs[NthPosition(MatchedNs, i)].text

\* A cap of 1 on a document of two matched entries: the second is cut.
C11_Witness ==
    /\ parse_done
    /\ arg_max_urls = Some(1)
    /\ arg_content.locs = <<[ns |-> "http", text |-> "u2"],
                            [ns |-> "http", text |-> "u1"]>>
    /\ returned_urls = <<"u2">>

\* C12: parse_sitemap returns URLs of http-namespace entries whenever the
\* document has at least one, URLs of https-namespace entries only when it
\* has none, and every entry of a document that is https throughout.
C12_NamespaceTieBreak ==
    parse_done =>
        /\ \A i \in 1..Len(returned_urls) :
               \E j \in Positions(MatchedNs) :
                   arg_content.locs[j].text = returned_urls[i]
        /\ (arg_max_urls = None /\ Positions("http") # {})
               => Len(returned_urls) = Cardinality(Positions("http"))
        /\ (arg_max_urls = None
               /\ Positions("https") = 1..Len(arg_content.locs))
               => returned_urls =
                      [i \in 1..Len(arg_content.locs) |->
                          arg_content.locs[i].text]

\* Both namespaces in one document: only the http entry comes back.
C12_Witness ==
    /\ parse_done
    /\ arg_max_urls = None
    /\ arg_content.locs = <<[ns |-> "https", text |-> "u2"],
                            [ns |-> "http", text |-> "u1"]>>
    /\ returned_urls = <<"u1">>

\* ---- the run (Spec)
\* The upsert attempt of task p ends in this step: collection.upsert has
\* returned or raised
AttemptEnds(p) == pc[p] = "upsert" /\ pc'[p] # "upsert"

\* C13: when within_rate_limit has admitted a write of n tokens,
\* tokens_used_this_minute has grown by exactly n when that upsert attempt
\* ends, whatever the outcome of the upsert.
C13_AdmissionReserves ==
    [][\A p \in Tasks :
          (admitted /\ AttemptEnds(p)) =>
              tokens_used_this_minute' =
                  tokens_used_this_minute + count_tokens(text_content)]_vars

\* Task p has just been refused by within_rate_limit in this step
Refused(p) == Checked(p) /\ pc'[p] = "refused"

\* C14 as stated: when within_rate_limit returns false,
\* tokens_used_this_minute and minute_window_start are what they were
\* before the call.
C14_RefusalLeavesWindow ==
    [][\A p \in Tasks : Refused(p) => UNCHANGED rateVars]_vars

\* C14 amended: when within_rate_limit returns false, a window younger
\* than 60 seconds is left as it was, and a window 60 seconds old or older
\* has been rolled over: no tokens used, the window starts now.
C14_RefusalAfterRollover ==
    [][\A p \in Tasks :
          Refused(p) =>
              IF window_age < WindowSeconds
              THEN UNCHANGED rateVars
              ELSE tokens_used_this_minute' = 0 /\ window_age' = 0]_vars

\* A refusal that rolled the window over: the 200000 tokens of a saved
\* page are gone from the count.
C14_Witness ==
    \E p, q \in Tasks :
        /\ pc[p] = "refused"
        /\ pc[q] = "saved"
        /\ \E i \in 1..Len(store) : store[i] = Entry(urls[q], "long")
        /\ tokens_used_this_minute = 0
        /\ window_age = 0

\* C15: between an upsert attempt that failed with RateLimitError and the
\* next upsert attempt of the same write, wait_for_rate_limit_reset runs:
\* the failed attempt is left only through the wait (the sleep is taken
\* and the window restarted), and an upsert attempt is entered only from
\* the admission test or from the wait of a refusal, never straight from a
\* throttling failure.
C15_WaitBeforeRetry ==
    [][\A p \in Tasks :
          /\ (pc[p] = "throttled" /\ pc'[p] # "throttled") =>
                 /\ pc'[p] = "backoff"
                 /\ window_age' = 0
                 /\ since_start' =
                        SinceAfter(since_start, TimeToWait(window_age))
          /\ (pc'[p] = "upsert" /\ pc[p] # "upsert") =>
                 pc[p] \in {"retry", "refused"}
          /\ (pc'[p] = "retry" /\ pc[p] # "retry") =>
                 pc[p] \in {"fetch", "backoff"}]_vars

\* The second upsert attempt of a write, after a throttled first one
C15_Witness ==
    \E p \in Tasks : pc[p] = "upsert" /\ tries = 2 /\ running = p

\* The upsert attempt of task p ends in this step with an exception that
\* is not a RateLimitError
ErrorEnds(p) == AttemptEnds(p) /\ pc'[p] \notin {"saved", "throttled"}

\* C16: when the upsert fails with a duplicate-key error or any other
\* exception that is not a RateLimitError, save_to_chromadb makes no
\* further upsert attempt for that write and returns normally (the
\* progress count moves on, nothing reaches main), the store is as before,
\* and the tasks still waiting for their page can go on.
C16_StoreErrorsNotRetried ==
    [][\A p \in Tasks :
          /\ ErrorEnds(p) =>
                 /\ pc'[p] \in {"duplicate", "other"}
                 /\ store' = store
                 /\ running' = 0
                 /\ completed' = completed + 1
                 /\ mainPc' = mainPc /\ error' = error
          /\ pc[p] \in {"duplicate", "other"} =>
                 /\ pc'[p] = pc[p]
                 /\ (mainPc = "gather" /\ running = 0) =>
                        \A q \in Tasks :
                            pc[q] = "fetch" => ENABLED FetchOk(q, "long")]_vars

\* A run that ended normally with one write failed on a store error and
\* the other page saved
C16_Witness ==
    \E p, q \in Tasks :
        /\ pc[p] = "other"
        /\ pc[q] = "saved"
        /\ store = <<Entry(urls[q], "long")>>
        /\ mainPc = "returned"

\* Task p is about to sleep or sleeping: in wait_for_rate_limit_reset or
\* in the backoff wrapper's delay
Sleeping(p) == pc[p] \in {"refused", "throttled", "backoff"}

\* C17: while one task sleeps in wait_for_rate_limit_reset or in the
\* backoff delay, a task whose page GET is outstanding can take its next
\* step.
C17_WaitIsSuspensionPoint ==
    \A p, q \in Tasks :
        (Sleeping(p) /\ pc[q] = "fetch") =>
            ENABLED (FetchFail(q) \/ \E t \in Texts : FetchOk(q, t))

\* Task p is inside save_to_chromadb
InSave(p) == pc[p] \in {"retry", "refused", "upsert", "throttled", "backoff"}

\* C18: the sequence within_rate_limit, optional wait, upsert,
\* tokens_used_this_minute += n of one write is never interleaved with
\* that of another task: at most one task is inside save_to_chromadb, no
\* other task moves while it is, and the charge of a successful upsert is
\* added to the count the sequence left.
C18_SerializedRateWindow ==
    [][/\ \A p, q \in Tasks : (InSave(p) /\ InSave(q)) => p = q
       /\ \A p \in Tasks :
              /\ InSave(p) =>
                     /\ running = p
                     /\ \A q \in Tasks \ {p} : pc'[q] = pc[q]
              /\ (pc[p] = "upsert" /\ pc'[p] = "saved") =>
                     tokens_used_this_minute' =
                         tokens_used_this_minute
                             + count_tokens(text_content)]_vars

\* Two pages saved in one window, both charges in the count
C18_Witness ==
    /\ Len(urls) = 2
    /\ \A p \in Tasks : pc[p] = "saved"
    /\ store = <<Entry(urls[1], "long"), Entry(urls[2], "long")>>
    /\ tokens_used_this_minute = 400000

\* C19: when the sitemap GET fails or delivers nothing, the XML is
\* malformed, or parsing yields no URLs, main is over at once: no task is
\* launched, no page is fetched or saved, and the store is as the run
\* found it.
C19_SitemapFailureIsFatal ==
    sitemap \in {"fetch_failed", "empty", "malformed", "no_urls"} =>
        /\ MainOver
        /\ sitemap = "malformed" <=> error = "ParseError"
        /\ pc = <<>>
        /\ running = 0
        /\ completed = 0
        /\ store = <<>>

\* The run over a malformed sitemap
C19_Witness ==
    sitemap = "malformed" /\ mainPc = "raised" /\ error = "ParseError"

\* C20: when within_rate_limit refuses a write, save_to_chromadb goes
\* through wait_for_rate_limit_reset once (one sleep of the time to wait,
\* the window restarted) and is then at the upsert, in the same try and
\* without another admission test, whatever the token cost and the count
\* after the wait; and nothing but the upsert's outcome follows.
C20_RefusedProceedsAfterOneWait ==
    [][\A p \in Tasks :
          /\ (pc[p] = "refused" /\ vars' # vars) =>
                 /\ pc'[p] = "upsert"
                 /\ ~admitted'
                 /\ tries' = tries
                 /\ window_age' = 0
                 /\ since_start' =
                        SinceAfter(since_start, TimeToWait(window_age))
          /\ (pc[p] = "upsert" /\ ~admitted) =>
                 pc'[p] \in {"upsert", "saved", "duplicate", "other",
                             "throttled"}]_vars

\* A refused write of more tokens than the limit, at the upsert after its
\* wait
C20_Witness ==
    \E p \in Tasks :
        /\ pc[p] = "upsert"
        /\ running = p
        /\ ~admitted
        /\ count_tokens(text_content) > tokens_per_minute_limit

\* C21: wait_for_rate_limit_reset sleeps exactly max(0, 100 - (now -
\* minute_window_start)) seconds: not at all on a window 100 seconds old or
\* older, never more than 100 seconds, and when it returns the window
\* starts at the time the sleep ended.  The sleep is read off the
\* wrapper's clock, which stops counting at max_time.
C21_WaitDuration ==
    [][\A p \in Tasks :
          Waited(p) =>
              LET slept == since_start' - since_start
                  due == IF window_age >= 100 THEN 0 ELSE 100 - window_age
              IN  /\ since_start' < max_time => slept = due
                  /\ since_start' = max_time => slept <= due
                  /\ window_age >= 100 => slept = 0
                  /\ slept >= 0 /\ slept <= 100
                  /\ window_age' = 0]_vars

\* A throttled write about to wait on a window 100 seconds old, with time
\* left on the wrapper's clock
C21_Witness ==
    \E p \in Tasks :
        /\ pc[p] = "throttled"
        /\ window_age = 100
        /\ since_start < max_time

\* Tasks whose save_to_chromadb call has returned
Returned == {p \in Tasks : pc[p] \in {"saved", "duplicate", "other"}}

\* C22: the progress count is the number of tasks whose page GET succeeded
\* and whose save_to_chromadb call returned (saved, duplicate or other
\* logged store error); it moves by one, in the step in which such a call
\* returns, and never for a failed GET or a write that raised.  So it is
\* never more than the number of tasks, and when main returns after
\* gather it is the number of tasks whose GET succeeded.
C22_ProgressCounter ==
    /\ [](/\ completed = Cardinality(Returned)
          /\ completed <= Len(urls)
          /\ (mainPc = "returned" /\ sitemap = "parsed") =>
                 completed = Cardinality({p \in Tasks : pc[p] # "skipped"}))
    /\ [][completed' # completed =>
              /\ completed' = completed + 1
              /\ \E p \in Tasks :
                     /\ pc[p] = "upsert"
                     /\ pc'[p] \in {"saved", "duplicate", "other"}]_vars

\* A run that ended normally: one page not fetched, one write ended by a
\* logged store error, progress 1
C22_Witness ==
    /\ mainPc = "returned"
    /\ Len(urls) = 2
    /\ \E p, q \in Tasks : pc[p] = "skipped" /\ pc[q] = "other"
    /\ completed = 1

====
